---- MODULE Spec2Model ----
(***************************************************************************)
(* Abelian sandpile engine of src/src/lib.rs (GridSandpile).               *)
(*                                                                         *)
(* The caller holds two sandpiles, s1 and s2.  Every public operation is   *)
(* one action (Spec); the loop of `order` is one action per iteration      *)
(* (SpecOrder); the private stabilizer `topple` is also followed step by   *)
(* step inside from_grid, one step per cell drained from the active set,   *)
(* in any order (SpecTopple).  Cell coordinates are 0-based pairs <<i, j>> *)
(* as in the code; TLA+ sequences are 1-based, so cell (i, j) is           *)
(* grid[i+1][j+1].                                                         *)
(***************************************************************************)
EXTENDS Integers, Sequences, FiniteSets, TLC

\* ---------------------------------------------------------------- bounds
MaxRows == 2        \* rows of a raw grid handed to from_grid / neutral
MaxCols == 2        \* columns of a row of a raw grid
MaxCells == 4       \* cells of a raw grid, all rows together
MaxCell == 4        \* largest chip count in a raw grid
MaxOps == 2         \* public calls made on a constructed sandpile
MaxStrLen == 3      \* characters of a text handed to from_string
MaxCount == 20      \* the toppling counter is exact below this
MaxOrder == 40      \* the counter of order is exact below this
RefCols == 3        \* columns of the widest all-6 reference grid
RefRows == 2        \* rows of the highest all-6 reference grid

VARIABLES
    s1,         \* the caller's first sandpile (receiver of add, inverse, order)
    s2,         \* the caller's second sandpile (operand of add)
    ret,        \* what the last finished public call returned
    nops,       \* public calls made since s1 was constructed
    pc,         \* "idle" | "arg" | "while" | "drain" | "ret" (in topple) | "order"
    sandpile,   \* from_grid: its arguments, then the sandpile `topple` works on
    excessive,  \* topple: the active set of the current round
    ex2,        \* topple: the active set of the next round
    count,      \* topple: topplings so far in this call
    order_a,    \* order: the accumulator `a`
    ocount      \* order: its count

vars == <<s1, s2, ret, nops, pc, sandpile, excessive, ex2, count, order_a, ocount>>
session == <<s1, s2, ret, nops>>
toppling == <<sandpile, excessive, ex2, count>>
ordering == <<order_a, ocount>>

\* ------------------------------------------------------------ data types
Finite == "Finite"
Toroidal == "Toroidal"
GridTypes == {Finite, Toroidal}

\* struct GridSandpile
Sandpile(gt, g, lt) == [grid_type |-> gt, grid |-> g, last_topple |-> lt]
\* a slot that holds no sandpile yet
NoSandpile == Sandpile("None", <<>>, 0)

\* the equality a derived PartialEq would give: every field compared
eqEveryField(a, b) == a = b

\* impl PartialEq: topology and cells only
eq(a, b) == a.grid_type = b.grid_type /\ a.grid = b.grid

At(g, i, j) == g[i + 1][j + 1]
Put(g, i, j, v) == [g EXCEPT ![i + 1][j + 1] = v]

\* all sequences over S of length 0..n
SeqUpTo(S, n) == UNION {[1..k -> S] : k \in 0..n}

Cells == 0..MaxCell

RECURSIVE Sum(_)
Sum(q) == IF q = <<>> THEN 0 ELSE Head(q) + Sum(Tail(q))

\* the row lengths of the raw grids tried: any, also none, empty or ragged ones
Shapes == {sh \in SeqUpTo(0..MaxCols, MaxRows) : Sum(sh) <= MaxCells}

\* raw grids a caller can pass, by shape
RECURSIVE GridsOfShape(_)
GridsOfShape(sh) ==
    IF sh = <<>> THEN {<<>>}
    ELSE {<<r>> \o rest : r \in [1..Head(sh) -> Cells], rest \in GridsOfShape(Tail(sh))}


\* the counters are u64; below the cap the model keeps them exactly
Bump(c, d, cap) == IF c + d < cap THEN c + d ELSE cap

\* ------------------------------------------------------------- topple
\* a scan that misses the cells holding exactly 4
ScanAbove4(g) ==
    {<<i, j>> \in (0..(Len(g) - 1)) \X (0..MaxCols) :
        j < Len(g[i + 1]) /\ At(g, i, j) > 4}

\* lines 138-144: the cells holding 4 or more
Scan(g) ==
    {<<i, j>> \in (0..(Len(g) - 1)) \X (0..MaxCols) :
        j < Len(g[i + 1]) /\ At(g, i, j) >= 4}

\* neighbours that wrap around the edges instead of falling off the grid
topple_to_wrapped(g, i, j) ==
    << <<(IF i > 0 THEN i - 1 ELSE Len(g) - 1), j>>,
       <<i, (IF j > 0 THEN j - 1 ELSE Len(g[1]) - 1)>>,
       <<(IF i < Len(g) - 1 THEN i + 1 ELSE 0), j>>,
       <<i, (IF j < Len(g[i + 1]) - 1 THEN j + 1 ELSE 0)>> >>

\* lines 158-171: the grid-adjacent cells that exist, in push order
topple_to_finite(g, i, j) ==
    (IF i > 0 THEN << <<i - 1, j>> >> ELSE <<>>)
    \o (IF j > 0 THEN << <<i, j - 1>> >> ELSE <<>>)
    \o (IF i < Len(g) - 1 THEN << <<i + 1, j>> >> ELSE <<>>)
    \o (IF j < Len(g[i + 1]) - 1 THEN << <<i, j + 1>> >> ELSE <<>>)

\* lines 172-189: the wrapped neighbours, without the sink (0,0)
topple_to_toroidal(g, i, j) ==
    LET up == IF i > 0 THEN i - 1 ELSE Len(g) - 1
        left == IF j > 0 THEN j - 1 ELSE Len(g[1]) - 1
        down == IF i < Len(g) - 1 THEN i + 1 ELSE 0
        right == IF j < Len(g[i + 1]) - 1 THEN j + 1 ELSE 0
    IN  (IF ~(up = 0 /\ j = 0) THEN << <<up, j>> >> ELSE <<>>)
        \o (IF ~(i = 0 /\ left = 0) THEN << <<i, left>> >> ELSE <<>>)
        \o (IF ~(down = 0 /\ j = 0) THEN << <<down, j>> >> ELSE <<>>)
        \o (IF ~(i = 0 /\ right = 0) THEN << <<i, right>> >> ELSE <<>>)

\* lines 156-190
topple_to(gt, g, i, j) ==
    IF gt = Finite THEN topple_to_finite(g, i, j) ELSE topple_to_toroidal(g, i, j)

\* a processed cell that is emptied instead of keeping its remainder
RemainderDropped(v) == 0

\* line 154: what the processed cell keeps
Remainder(v) == v % 4

\* the locals of topple: the grid, the next round's set, the count
ToppleState(g, nxt, cnt) == [grid |-> g, ex2 |-> nxt, count |-> cnt]

\* F at the value of x, with x worked out once
Let(x, F(_)) == CHOOSE r \in {F(v) : v \in {x}} : TRUE

\* a credit that notes the target only when it is above 4
CreditAbove4(st, t, d) ==
    [st EXCEPT
        !.grid = Put(st.grid, t[1], t[2], At(st.grid, t[1], t[2]) + d),
        !.ex2 = IF At(st.grid, t[1], t[2]) + d > 4 THEN st.ex2 \cup {t} ELSE st.ex2]

\* lines 192-195: credit d to the target t, noting it when it is at 4 or more
Credit(st, t, d) ==
    [st EXCEPT
        !.grid = Put(st.grid, t[1], t[2], At(st.grid, t[1], t[2]) + d),
        !.ex2 = IF At(st.grid, t[1], t[2]) + d >= 4 THEN st.ex2 \cup {t} ELSE st.ex2]

\* lines 191-196: credit d to every target in turn
RECURSIVE Distribute(_, _, _)
Distribute(st, tt, d) ==
    IF tt = <<>> THEN st
    ELSE Let(Credit(st, Head(tt), d),
             LAMBDA nxt : Let(Tail(tt), LAMBDA rest : Distribute(nxt, rest, d)))

\* lines 149-196: the body of the drain loop for one cell c
ProcessCell(gt, st, c) ==
    LET i == c[1]
        j == c[2]
        d == At(st.grid, i, j) \div 4
    IN  IF d = 0 THEN st
        ELSE Let(topple_to(gt, st.grid, i, j),
                 LAMBDA tt :
                    Distribute(
                        ToppleState(Put(st.grid, i, j, Remainder(At(st.grid, i, j))),
                                    st.ex2, Bump(st.count, d, MaxCount)),
                        tt, d))

\* the cell a drain in one fixed order hands out
Pick(exc) == CHOOSE c \in exc : TRUE

\* lines 148-197 with the set drained in one fixed order
RECURSIVE DrainAll(_, _, _)
DrainAll(gt, st, exc) ==
    IF exc = {} THEN st
    ELSE Let(Pick(exc),
             LAMBDA c : Let(ProcessCell(gt, st, c),
                            LAMBDA nxt : Let(exc \ {c},
                                             LAMBDA rest : DrainAll(gt, nxt, rest))))

\* lines 146-199: the rounds; st.ex2 is the active set of the round to come
RECURSIVE Rounds(_, _)
Rounds(gt, st) ==
    IF st.ex2 = {} THEN st
    ELSE Let(DrainAll(gt, [st EXCEPT !.ex2 = {}], st.ex2),
             LAMBDA nxt : Rounds(gt, nxt))

\* a count that goes on from the count recorded before
toppleAccumulating(sp) ==
    Let(ToppleState(sp.grid, Scan(sp.grid), sp.last_topple),
        LAMBDA st0 : Let(Rounds(sp.grid_type, st0),
                         LAMBDA st : Sandpile(sp.grid_type, st.grid, st.count)))

\* lines 135-202 as one function: the sandpile after self.topple()
topple(sp) ==
    Let(ToppleState(sp.grid, Scan(sp.grid), 0),
        LAMBDA st0 : Let(Rounds(sp.grid_type, st0),
                         LAMBDA st : Sandpile(sp.grid_type, st.grid, st.count)))

\* ------------------------------------------------------------ from_grid
Result(op, kind, args) == [op |-> op, kind |-> kind, args |-> args]
NoResult == Result("none", "none", <<>>)

\* lines 55-60: the first row whose length differs from the first row's, or 0
FirstRagged(grid) ==
    LET bad == {i \in 1..(Len(grid) - 1) : Len(grid[i + 1]) # Len(grid[1])}
    IN  IF bad = {} THEN 0 ELSE CHOOSE i \in bad : \A k \in bad : i <= k

\* the two lengths of UnequalRowLengths in each other's place
ValidateLengthsSwapped(grid) ==
    IF grid = <<>> THEN [kind |-> "EmptyGrid", args |-> <<>>]
    ELSE IF Len(grid[1]) = 0 THEN [kind |-> "EmptyFirstRow", args |-> <<grid>>]
    ELSE IF FirstRagged(grid) # 0
         THEN [kind |-> "UnequalRowLengths",
               args |-> <<grid, Len(grid[FirstRagged(grid) + 1]), FirstRagged(grid),
                          Len(grid[1])>>]
    ELSE [kind |-> "Ok", args |-> <<>>]

\* lines 48-60: the error from_grid returns, or "Ok"
Validate(grid) ==
    IF grid = <<>> THEN [kind |-> "EmptyGrid", args |-> <<>>]
    ELSE IF Len(grid[1]) = 0 THEN [kind |-> "EmptyFirstRow", args |-> <<grid>>]
    ELSE IF FirstRagged(grid) # 0
         THEN [kind |-> "UnequalRowLengths",
               args |-> <<grid, Len(grid[1]), FirstRagged(grid),
                          Len(grid[FirstRagged(grid) + 1])>>]
    ELSE [kind |-> "Ok", args |-> <<>>]

\* cell (0,0) emptied whatever the topology
ZeroSinkAlways(gt, g) == Put(g, 0, 0, 0)

\* a sink that is left as it is
ZeroSinkForgotten(gt, g) == g

\* lines 66-68, 124-126, 215-217: the toroidal sink holds nothing
ZeroSink(gt, g) == IF gt = Toroidal THEN Put(g, 0, 0, 0) ELSE g

\* lines 61-70 as one function, for a grid that passed Validate
from_grid(gt, grid) == topple(Sandpile(gt, ZeroSink(gt, grid), 0))

\* ---------------------------------------------------------- from_string
NewLine == "\n"
Glyphs == {" ", ".", ":", "&", "#"}
\* the characters of the texts tried: the five glyphs, the line end, a stranger
Alphabet == Glyphs \cup {NewLine, "x"}
Texts == SeqUpTo(Alphabet, MaxStrLen)

\* lines 78-84
GlyphValue(ch) ==
    CASE ch = " " -> 0
      [] ch = "." -> 1
      [] ch = ":" -> 2
      [] ch = "&" -> 3
      [] ch = "#" -> 4

\* str::lines(): the pieces between line ends; a last empty piece is no line
RECURSIVE SplitLines(_, _, _)
SplitLines(s, cur, acc) ==
    IF s = <<>> THEN (IF cur = <<>> THEN acc ELSE Append(acc, cur))
    ELSE IF Head(s) = NewLine THEN SplitLines(Tail(s), <<>>, Append(acc, cur))
    ELSE SplitLines(Tail(s), Append(cur, Head(s)), acc)

Lines(s) == SplitLines(s, <<>>, <<>>)

\* lines 74-88: the first character that is no glyph, or the parsed rows
Parse(s) ==
    LET strangers == {k \in 1..Len(s) : s[k] \notin Glyphs \cup {NewLine}}
        ls == Lines(s)
    IN  IF strangers # {}
        THEN [kind |-> "UnknownSymbol",
              args |-> <<s[CHOOSE k \in strangers : \A m \in strangers : k <= m]>>,
              g |-> <<>>]
        ELSE [kind |-> "Ok", args |-> <<>>,
              g |-> [r \in 1..Len(ls) |-> [k \in 1..Len(ls[r]) |-> GlyphValue(ls[r][k])]]]

\* ------------------------------------------------- add, neutral, inverse
\* a Vec of y rows of x cells, cell (i, j) holding F(i, j), every cell worked out
MakeGrid(y, x, F(_, _)) ==
    SubSeq([i \in 1..y |-> SubSeq([j \in 1..x |-> F(i, j)], 1, x)], 1, y)

\* lines 107-111
SumGrid(g, h) == MakeGrid(Len(g), Len(g[1]), LAMBDA i, j : g[i][j] + h[i][j])

\* the checks of add with the dimensions compared before the topologies
AddCheckDimsFirst(self, p) ==
    IF Len(p.grid) # Len(self.grid) \/ Len(p.grid[1]) # Len(self.grid[1])
    THEN [kind |-> "UnequalDimensions",
          args |-> <<Len(self.grid), Len(self.grid[1]), Len(p.grid), Len(p.grid[1])>>]
    ELSE IF p.grid_type # self.grid_type
    THEN [kind |-> "UnequalTypes", args |-> <<self.grid_type, p.grid_type>>]
    ELSE [kind |-> "Ok", args |-> <<>>]

\* lines 100-106: the error add returns, or "Ok"
AddCheck(self, p) ==
    IF p.grid_type # self.grid_type
    THEN [kind |-> "UnequalTypes", args |-> <<self.grid_type, p.grid_type>>]
    ELSE IF Len(p.grid) # Len(self.grid) \/ Len(p.grid[1]) # Len(self.grid[1])
    THEN [kind |-> "UnequalDimensions",
          args |-> <<Len(self.grid), Len(self.grid[1]), Len(p.grid), Len(p.grid[1])>>]
    ELSE [kind |-> "Ok", args |-> <<>>]

\* lines 107-113: self after a self.add(p) that passed AddCheck
add(self, p) == topple([self EXCEPT !.grid = SumGrid(self.grid, p.grid)])

\* vec![vec![6; x]; y]
AllSix(x, y) == MakeGrid(y, x, LAMBDA i, j : 6)

\* the reference grid itself, the subtraction from 6 left out
NeutralGridNotSubtracted(m) == m

\* lines 119-123
NeutralGrid(m) == MakeGrid(Len(m), Len(m[1]), LAMBDA i, j : 6 - m[i][j])

\* the configuration added to the doubled difference instead of subtracted
InverseGridSignFlipped(m, g) ==
    MakeGrid(Len(g), Len(g[1]), LAMBDA i, j : 2 * (6 - m[i][j]) + g[i][j])

\* lines 210-214
InverseGrid(m, g) ==
    MakeGrid(Len(g), Len(g[1]), LAMBDA i, j : 2 * (6 - m[i][j]) - g[i][j])

\* the all-6 grid taken as it is, not stabilized
referenceUnstabilized(gt, x, y) == Sandpile(gt, ZeroSink(gt, AllSix(x, y)), 0)

\* lines 118 and 209: from_grid(grid_type, all-6 grid).unwrap(), the reference grid
reference(gt, x, y) == from_grid(gt, AllSix(x, y))

\* the reference grids of all sizes tried, computed once
References ==
    [gt \in GridTypes, x \in 1..RefCols, y \in 1..RefRows |-> reference(gt, x, y)]

\* lines 116-129, for x > 0 and y > 0
neutral(gt, x, y) ==
    LET m == References[gt, x, y]
    IN  topple([m EXCEPT !.grid = ZeroSink(gt, NeutralGrid(m.grid))])

\* the neutral elements of all sizes tried, computed once
Neutrals ==
    [gt \in GridTypes, x \in 1..RefCols, y \in 1..RefRows |-> neutral(gt, x, y)]

\* lines 208-220
inverse(self) ==
    LET m == References[self.grid_type, Len(self.grid[1]), Len(self.grid)]
    IN  topple([m EXCEPT !.grid = ZeroSink(self.grid_type, InverseGrid(m.grid, self.grid))])

\* ---------------------------------------------------------------- Init
Idle == pc = "idle"
\* the caller has not called a constructor yet
Fresh == Idle /\ s1 = NoSandpile /\ ret = NoResult
\* a public call on the constructed sandpile s1 can be made
CanCall == Idle /\ s1 # NoSandpile /\ nops < MaxOps

Init ==
    /\ s1 = NoSandpile
    /\ s2 = NoSandpile
    /\ ret = NoResult
    /\ nops = 0
    /\ pc = "idle"
    /\ sandpile = NoSandpile
    /\ excessive = {}
    /\ ex2 = {}
    /\ count = 0
    /\ order_a = NoSandpile
    /\ ocount = 0

\* --------------------------------------------------- the public calls
\* lines 47-71: s1 = GridSandpile::from_grid(gt, grid)
FromGrid ==
    /\ Fresh
    /\ \E gt \in GridTypes, sh \in Shapes : \E grid \in GridsOfShape(sh) :
        LET v == Validate(grid)
        IN  /\ ret' = Result("from_grid", v.kind, v.args)
            /\ s1' = IF v.kind = "Ok" THEN from_grid(gt, grid) ELSE s1
    /\ UNCHANGED <<s2, nops, pc, toppling, ordering>>

\* lines 73-97: s1 = GridSandpile::from_string(gt, (x, y), s)
FromString ==
    /\ Fresh
    /\ \E gt \in GridTypes, x \in 0..MaxCols, y \in 0..MaxRows, s \in Texts :
        LET p == Parse(s)
            v == Validate(p.g)
        IN  IF p.kind # "Ok"
            THEN ret' = Result("from_string", p.kind, p.args) /\ UNCHANGED s1
            ELSE IF y = 0 \/ x = 0 \/ Len(p.g) = 0
            THEN ret' = Result("from_string", "EmptyGrid", <<>>) /\ UNCHANGED s1
            ELSE IF v.kind # "Ok"
            THEN ret' = Result("from_string", v.kind, v.args) /\ UNCHANGED s1
            ELSE LET sp == from_grid(gt, p.g)
                 IN  IF Len(sp.grid) # y \/ Len(sp.grid[1]) # x
                     THEN /\ ret' = Result("from_string", "UnequalDimensions",
                                           <<x, y, Len(sp.grid), Len(sp.grid[1])>>)
                          /\ UNCHANGED s1
                     ELSE ret' = Result("from_string", "Ok", <<>>) /\ s1' = sp
    /\ UNCHANGED <<s2, nops, pc, toppling, ordering>>

\* an add that writes the sum into its operand
AddIntoOperand ==
    /\ Idle /\ s1 # NoSandpile /\ nops < MaxOps
    /\ s2 # NoSandpile
    /\ nops' = nops + 1
    /\ ret' = Result("add", AddCheck(s1, s2).kind, AddCheck(s1, s2).args)
    /\ s2' = IF AddCheck(s1, s2).kind = "Ok" THEN add(s2, s1) ELSE s2
    /\ UNCHANGED <<s1, pc, toppling, ordering>>

\* lines 99-114: s1.add(&s2); the receiver is changed in place
Add ==
    /\ CanCall
    /\ s2 # NoSandpile
    /\ nops' = nops + 1
    /\ LET v == AddCheck(s1, s2)
       IN  /\ ret' = Result("add", v.kind, v.args)
           /\ s1' = IF v.kind = "Ok" THEN add(s1, s2) ELSE s1
    /\ UNCHANGED <<s2, pc, toppling, ordering>>

\* lines 116-129: s2 = GridSandpile::neutral(gt, (x, y)); unwrap panics on a zero size
Neutral ==
    /\ CanCall
    /\ nops' = nops + 1
    /\ \E gt \in GridTypes, x \in 0..MaxCols, y \in 0..MaxRows :
        LET v == Validate(AllSix(x, y))
        IN  IF v.kind # "Ok"
            THEN ret' = Result("neutral", "panic", <<v.kind>>) /\ UNCHANGED s2
            ELSE ret' = Result("neutral", "Ok", <<>>) /\ s2' = Neutrals[gt, x, y]
    /\ UNCHANGED <<s1, pc, toppling, ordering>>

\* lines 208-220: s2 = s1.inverse()
Inverse ==
    /\ CanCall
    /\ nops' = nops + 1
    /\ s2' = inverse(s1)
    /\ ret' = Result("inverse", "Ok", <<>>)
    /\ UNCHANGED <<s1, pc, toppling, ordering>>

\* #[derive(Clone)]: s2 = s1.clone()
Clone ==
    /\ CanCall
    /\ nops' = nops + 1
    /\ s2' = s1
    /\ ret' = Result("clone", "Ok", <<>>)
    /\ UNCHANGED <<s1, pc, toppling, ordering>>

\* ---------------------------------------------------------------- order
\* an order that starts counting at 0
OrderCallFromZero ==
    /\ Idle /\ s1 # NoSandpile /\ nops < MaxOps
    /\ nops' = nops + 1
    /\ order_a' = add(s1, s1)
    /\ ocount' = 0
    /\ pc' = "order"
    /\ UNCHANGED <<s1, s2, ret, toppling>>

\* lines 224-226: a = self.clone(); a.add(self); count = 1
OrderCall ==
    /\ CanCall
    /\ nops' = nops + 1
    /\ order_a' = add(s1, s1)
    /\ ocount' = 1
    /\ pc' = "order"
    /\ UNCHANGED <<s1, s2, ret, toppling>>

\* lines 227-229: a != *self, so a.add(self) and count += 1
OrderAgain ==
    /\ pc = "order"
    /\ ~eq(order_a, s1)
    /\ order_a' = add(order_a, s1)
    /\ ocount' = Bump(ocount, 1, MaxOrder)
    /\ UNCHANGED <<session, pc, toppling>>

\* line 231: a == *self
OrderReturn ==
    /\ pc = "order"
    /\ eq(order_a, s1)
    /\ ret' = Result("order", "Ok", <<ocount>>)
    /\ pc' = "idle"
    /\ order_a' = NoSandpile
    /\ ocount' = 0
    /\ UNCHANGED <<s1, s2, nops, toppling>>

\* -------------------------------------------- the constructors alone
\* line 47: the caller hands from_grid a topology and a raw grid
FromGridArg ==
    /\ Fresh
    /\ \E gt \in GridTypes, sh \in Shapes : \E grid \in GridsOfShape(sh) :
        sandpile' = Sandpile(gt, grid, 0)
    /\ pc' = "arg"
    /\ UNCHANGED <<session, excessive, ex2, count, ordering>>

\* lines 48-70: from_grid on these arguments; they stay on record in `sandpile`
FromGridRun ==
    /\ pc = "arg"
    /\ LET v == Validate(sandpile.grid)
       IN  /\ ret' = Result("from_grid", v.kind, v.args)
           /\ s1' = IF v.kind = "Ok"
                    THEN from_grid(sandpile.grid_type, sandpile.grid) ELSE s1
    /\ pc' = "idle"
    /\ UNCHANGED <<s2, nops, toppling, ordering>>

\* lines 116-129: s2 = GridSandpile::neutral(gt, (x, y)) as the first call made
NeutralFirst ==
    /\ Fresh
    /\ s2 = NoSandpile
    /\ \E gt \in GridTypes, x \in 1..RefCols, y \in 1..RefRows :
        s2' = Neutrals[gt, x, y]
    /\ ret' = Result("neutral", "Ok", <<>>)
    /\ UNCHANGED <<s1, nops, pc, toppling, ordering>>

\* lines 47-71: s2 = GridSandpile::from_grid(gt, grid), gt and the shape as of
\* s1.  Every stable grid is its own raw grid, so pairs of raw grids that need
\* no toppling give every pair of configurations; add reads no toppling count.
FromGridSecond ==
    /\ CanCall
    /\ s2 = NoSandpile
    /\ s1.last_topple = 0
    /\ nops' = nops + 1
    /\ \E grid \in GridsOfShape([r \in 1..Len(s1.grid) |-> Len(s1.grid[1])]) :
        /\ Scan(grid) = {}
        /\ s2' = from_grid(s1.grid_type, grid)
    /\ ret' = Result("from_grid", "Ok", <<>>)
    /\ UNCHANGED <<s1, pc, toppling, ordering>>

\* ------------------------------------- from_grid, topple step by step
\* lines 47-69 and 136-145, for a grid that passes the checks
FromGridBegin ==
    /\ Fresh
    /\ \E gt \in GridTypes, sh \in Shapes : \E grid \in GridsOfShape(sh) :
        /\ Validate(grid).kind = "Ok"
        /\ sandpile' = Sandpile(gt, ZeroSink(gt, grid), 0)
        /\ excessive' = Scan(ZeroSink(gt, grid))
    /\ ex2' = {}
    /\ count' = 0
    /\ pc' = "while"
    /\ UNCHANGED <<session, ordering>>

\* lines 118 and 209: from_grid on the all-6 grid of neutral and inverse
ReferenceBegin ==
    /\ Fresh
    /\ \E gt \in GridTypes, x \in 1..MaxCols, y \in 1..MaxRows :
        /\ sandpile' = Sandpile(gt, ZeroSink(gt, AllSix(x, y)), 0)
        /\ excessive' = Scan(ZeroSink(gt, AllSix(x, y)))
    /\ ex2' = {}
    /\ count' = 0
    /\ pc' = "while"
    /\ UNCHANGED <<session, ordering>>

\* lines 339 and 341: the operands of tests::add
TestAddLeft == << <<2, 1, 2>>, <<3, 3, 1>>, <<2, 3, 1>> >>
TestAddRight == << <<2, 1, 2>>, <<1, 0, 1>>, <<2, 1, 2>> >>

\* lines 107-112 on the operands of tests::add (line 342): the sum, to be toppled
TestAddBegin ==
    /\ Fresh
    /\ sandpile' = Sandpile(Finite, SumGrid(TestAddLeft, TestAddRight), 0)
    /\ excessive' = Scan(SumGrid(TestAddLeft, TestAddRight))
    /\ ex2' = {}
    /\ count' = 0
    /\ pc' = "while"
    /\ UNCHANGED <<session, ordering>>

\* lines 146-147: another round starts
RoundBegin ==
    /\ pc = "while"
    /\ excessive # {}
    /\ ex2' = {}
    /\ pc' = "drain"
    /\ UNCHANGED <<session, sandpile, excessive, count, ordering>>

\* lines 148-197: the drain hands out some cell of the set
DrainCell ==
    /\ pc = "drain"
    /\ \E c \in excessive :
        \E r \in {ProcessCell(sandpile.grid_type, ToppleState(sandpile.grid, ex2, count), c)} :
            /\ sandpile' = [sandpile EXCEPT !.grid = r.grid]
            /\ ex2' = r.ex2
            /\ count' = r.count
            /\ excessive' = excessive \ {c}
    /\ UNCHANGED <<session, pc, ordering>>

\* line 198: the next round's set becomes the current one
RoundEnd ==
    /\ pc = "drain"
    /\ excessive = {}
    /\ excessive' = ex2
    /\ ex2' = {}
    /\ pc' = "while"
    /\ UNCHANGED <<session, sandpile, count, ordering>>

\* lines 200-201: the loop is over
ToppleExit ==
    /\ pc = "while"
    /\ excessive = {}
    /\ sandpile' = [sandpile EXCEPT !.last_topple = count]
    /\ pc' = "ret"
    /\ UNCHANGED <<session, excessive, ex2, count, ordering>>

\* line 70: Ok(sandpile)
FromGridEnd ==
    /\ pc = "ret"
    /\ s1' = sandpile
    /\ ret' = Result("from_grid", "Ok", <<>>)
    /\ pc' = "idle"
    /\ sandpile' = NoSandpile
    /\ count' = 0
    /\ UNCHANGED <<s2, nops, excessive, ex2, ordering>>

ToppleStep == RoundBegin \/ DrainCell \/ RoundEnd \/ ToppleExit \/ FromGridEnd

\* ------------------------------------------------------- specifications
Next == FromGrid \/ FromString \/ Add \/ Neutral \/ Inverse \/ Clone

\* the constructors and the group operations, each call one step
Spec == Init /\ [][Next]_vars

NextTopple ==
    \/ FromGridBegin \/ ReferenceBegin \/ TestAddBegin
    \/ RoundBegin \/ DrainCell \/ RoundEnd \/ ToppleExit \/ FromGridEnd

\* from_grid with every step of its stabilization
SpecTopple == Init /\ [][NextTopple]_vars

\* the same; a call that runs goes on (the code is sequential)
SpecToppleFair == SpecTopple /\ WF_vars(ToppleStep)

OrderStep == OrderAgain \/ OrderReturn
NextOrder == FromGrid \/ OrderCall \/ OrderAgain \/ OrderReturn

\* from_grid, then order, one step per iteration; a call that runs goes on
SpecOrder == Init /\ [][NextOrder]_vars /\ WF_vars(OrderStep)

NextConstruct == FromGridArg \/ FromGridRun \/ NeutralFirst

\* the constructors from_grid and neutral, the arguments of from_grid on record
SpecConstruct == Init /\ [][NextConstruct]_vars

NextPair == FromGrid \/ FromGridSecond \/ Add

\* two sandpiles constructed independently of each other, then added
SpecPair == Init /\ [][NextPair]_vars

\* ================================================================ claims
Held == {sp \in {s1, s2} : sp # NoSandpile}
CellsOf(g) == {<<i, j>> \in (0..(Len(g) - 1)) \X (0..(Len(g[1]) - 1)) : TRUE}
Stable(g) == \A c \in CellsOf(g) : At(g, c[1], c[2]) < 4
\* the neutral element of the topology and size of sp
NeutralFor(sp) == Neutrals[sp.grid_type, Len(sp.grid[1]), Len(sp.grid)]
Succeeded(op) == ret.op = op /\ ret.kind = "Ok"

\* C1: every configuration a public operation has returned (from_grid,
\* from_string, add, neutral, inverse, in any sequence, both topologies) has
\* every cell below 4.
C1_Stable == \A sp \in Held : Stable(sp.grid)

\* a sum that needed topplings has been returned, and it is stable
C1_Witness == Succeeded("add") /\ s1.last_topple > 0 /\ Stable(s1.grid)

\* what is left of the running stabilization, finished in one fixed order
Completion ==
    CASE pc = "while" ->
            Rounds(sandpile.grid_type, ToppleState(sandpile.grid, excessive, count))
      [] pc = "drain" ->
            Rounds(sandpile.grid_type,
                   DrainAll(sandpile.grid_type,
                            ToppleState(sandpile.grid, ex2, count), excessive))
      [] pc = "ret" -> ToppleState(sandpile.grid, {}, sandpile.last_topple)
      [] OTHER -> ToppleState(<<>>, {}, 0)

\* what would be left after the drain hands out cell c, finished likewise
CompletionAfter(c) ==
    Rounds(sandpile.grid_type,
           DrainAll(sandpile.grid_type,
                    ProcessCell(sandpile.grid_type,
                                ToppleState(sandpile.grid, ex2, count), c),
                    excessive \ {c}))

\* C2: whichever cell of the active set the drain hands out next, the
\* stabilization ends in the same final grid with the same toppling count as
\* in the fixed order; so all processing orders end alike.
C2_Confluence ==
    pc = "drain" =>
        \A c \in excessive :
            /\ CompletionAfter(c).grid = Completion.grid
            /\ CompletionAfter(c).count = Completion.count

\* mid-round, with a choice among at least two cells left and a cell already
\* processed that pushed a neighbour to 4 or more
C2_Witness == pc = "drain" /\ Cardinality(excessive) >= 2 /\ ex2 # {} /\ count > 0

\* C3: the round loop of topple reaches an empty active set, for every
\* rectangular grid and both topologies.
C3_Terminates == (pc \in {"while", "drain"}) ~> (pc = "ret")

\* a toroidal stabilization on a grid of height and width 2, where the upper
\* and lower and the left and right neighbour of a cell coincide, has run
\* several rounds and ended
C3_Witness ==
    /\ pc = "ret"
    /\ sandpile.grid_type = Toroidal
    /\ Len(sandpile.grid) = 2
    /\ Len(sandpile.grid[1]) = 2
    /\ sandpile.last_topple >= 3

\* C4: on every returned toroidal configuration cell (0,0) is 0, and (0,0) is
\* no target of the toppling of any cell.
C4_SinkExclusion ==
    \A sp \in Held :
        sp.grid_type = Toroidal =>
            /\ At(sp.grid, 0, 0) = 0
            /\ \A c \in CellsOf(sp.grid) :
                LET tt == topple_to(Toroidal, sp.grid, c[1], c[2])
                IN  \A k \in 1..Len(tt) : tt[k] # <<0, 0>>

\* a toroidal sum that needed topplings has been returned
C4_Witness ==
    /\ Succeeded("add")
    /\ s1.grid_type = Toroidal
    /\ s1.last_topple > 0
    /\ At(s1.grid, 0, 0) = 0

\* s1.add(&s2) is called with the neutral element of s1's topology and size
AddsNeutral == Add /\ AddCheck(s1, s2).kind = "Ok" /\ eq(s2, NeutralFor(s1))

\* C5 as stated: adding the neutral element to any configuration returns it.
C5_IdentityOnAll == [][AddsNeutral => eq(s1', s1)]_vars

\* C5, amended: for any configuration x the sum z = add(x, neutral) satisfies
\* add(z, neutral) == z, and so does z = inverse(x): the neutral element is
\* the identity on the configurations of these forms.
C5_IdentityOnSums ==
    s1 # NoSandpile =>
        LET e == NeutralFor(s1)
            z == add(s1, e)
            i == inverse(s1)
        IN  eq(add(z, e), z) /\ eq(add(i, e), i)

\* the neutral element has been added to a configuration that it changed
C5_Witness ==
    /\ Succeeded("add")
    /\ eq(s2, NeutralFor(s1))
    /\ s1.last_topple > 0
    /\ eq(add(s1, s2), s1)
    /\ nops = 2

\* C6: when s1.inverse() has returned s2, adding s2 to s1 gives the neutral
\* element of s1's topology and size.
C6_InverseLaw == Succeeded("inverse") => eq(add(s1, s2), NeutralFor(s1))

\* the inverse of a configuration that the neutral element does not fix
C6_Witness ==
    /\ Succeeded("inverse")
    /\ ~eq(add(s1, NeutralFor(s1)), s1)
    /\ add(s1, s2).last_topple > 0

\* C7: order(x) returns for every constructed configuration x.
C7_OrderTerminates == (pc = "order") ~> (pc = "idle")

\* the accumulators of order: <<x + x, x + x + x, ...>>, n of them
RECURSIVE Multiples(_, _, _)
Multiples(x, q, n) ==
    IF Len(q) >= n THEN q
    ELSE Let(Append(q, add(IF q = <<>> THEN x ELSE q[Len(q)], x)),
             LAMBDA longer : Multiples(x, longer, n))

\* C8: when order(x) returns n, adding x to x n times gives x, and adding it
\* fewer times (at least once) does not.
C8_OrderConsistent ==
    (Succeeded("order") /\ ret.args[1] < MaxOrder) =>
        LET n == ret.args[1]
            m == Multiples(s1, <<>>, n)
        IN  /\ n >= 1
            /\ eq(m[n], s1)
            /\ \A k \in 1..(n - 1) : ~eq(m[k], s1)

\* order has returned a count above 2
C8_Witness == Succeeded("order") /\ ret.args[1] > 2 /\ ret.args[1] < MaxOrder

\* C9: add on operands of different topology returns UnequalTypes, on
\* operands of the same topology and different row or column count
\* UnequalDimensions, and in both cases leaves both operands as they were.
C9_AddFailsAtomically ==
    [][Add =>
        LET types == s1.grid_type # s2.grid_type
            dims == Len(s1.grid) # Len(s2.grid) \/ Len(s1.grid[1]) # Len(s2.grid[1])
        IN  /\ types => ret'.kind = "UnequalTypes"
            /\ (~types /\ dims) => ret'.kind = "UnequalDimensions"
            /\ (types \/ dims) => (s1' = s1 /\ s2' = s2)
            /\ (~types /\ ~dims) => ret'.kind = "Ok"]_vars

\* add has failed on operands that differ in topology and in size
C9_Witness ==
    /\ ret.op = "add"
    /\ ret.kind = "UnequalTypes"
    /\ s1.grid_type # s2.grid_type
    /\ Len(s1.grid) # Len(s2.grid)
    /\ s1.last_topple > 0

\* C10 as stated: after a successful add the cells of both operands are as
\* before the call.
C10_NoOperandChanged ==
    [][(Add /\ ret'.kind = "Ok") => (s1'.grid = s1.grid /\ s2'.grid = s2.grid)]_vars

\* C10, amended: a successful add leaves the operand s2 as it was (cells and
\* toppling count) and overwrites the receiver s1 with the stabilized sum,
\* of the same topology and size.
C10_OnlyReceiverChanged ==
    [][(Add /\ ret'.kind = "Ok") =>
        /\ s2' = s2
        /\ s1' = add(s1, s2)
        /\ s1'.grid_type = s1.grid_type
        /\ Len(s1'.grid) = Len(s1.grid)
        /\ Len(s1'.grid[1]) = Len(s1.grid[1])]_vars

\* the receiver holds the stabilized double of the operand it was cloned to,
\* and no longer the cells it had
C10_Witness ==
    /\ Succeeded("add")
    /\ nops = 2
    /\ eq(s1, add(s2, s2))
    /\ ~eq(s1, s2)

\* ------------------------------------------------------------ C11 - C20
\* the raw grid the finished from_grid call was given
Raw == sandpile.grid
Constructed == pc = "idle" /\ ret.op = "from_grid"
\* the rows of the raw grid, after the first, whose length is not the first's
RaggedRows == {i \in 1..(Len(Raw) - 1) : Len(Raw[i + 1]) # Len(Raw[1])}

C12_Idempotent ==
    (Constructed /\ ret.kind = "Ok") =>
        /\ (Stable(Raw) /\ (sandpile.grid_type = Toroidal => At(Raw, 0, 0) = 0)) =>
                (s1.grid = Raw /\ s1.last_topple = 0)
        /\ topple(s1).grid = s1.grid
        /\ topple(s1).last_topple = 0

\* from_grid has returned a Finite grid holding 3 everywhere, (0,0) included
C12_Witness ==
    /\ Constructed /\ ret.kind = "Ok"
    /\ s1.grid_type = Finite
    /\ Raw = << <<3, 3>>, <<3, 3>> >>
    /\ s1.grid = Raw

\* one chip more on every cell listed in tt, a cell listed twice getting two
RECURSIVE OneEach(_, _)
OneEach(g, tt) ==
    IF tt = <<>> THEN g
    ELSE Let(Put(g, Head(tt)[1], Head(tt)[2], At(g, Head(tt)[1], Head(tt)[2]) + 1),
             LAMBDA h : Let(Tail(tt), LAMBDA rest : OneEach(h, rest)))

\* the unit 4-chip topplings that stabilize g, one cell toppled once at a time,
\* added to n (counted exactly below MaxCount)
RECURSIVE UnitTopplings(_, _, _)
UnitTopplings(gt, g, n) ==
    IF Scan(g) = {} THEN n
    ELSE Let(Pick(Scan(g)),
             LAMBDA c :
                Let(OneEach(Put(g, c[1], c[2], At(g, c[1], c[2]) - 4),
                            topple_to(gt, g, c[1], c[2])),
                    LAMBDA h : Let(Bump(n, 1, MaxCount),
                                   LAMBDA m : UnitTopplings(gt, h, m))))

\* C13: after a successful add the receiver's last_topple is the number of
\* unit 4-chip topplings that stabilize the sum of the two grids, whatever
\* toppling counts the operands carried.
C13_CountPerCall ==
    [][(Add /\ ret'.kind = "Ok") =>
        s1'.last_topple = UnitTopplings(s1.grid_type, SumGrid(s1.grid, s2.grid), 0)]_vars

\* a sum that needed topplings, of operands that carried toppling counts
C13_Witness ==
    /\ Succeeded("add")
    /\ nops = 2
    /\ s2.last_topple > 0
    /\ s1.last_topple > 0
    /\ s1.last_topple # s2.last_topple
    /\ s1.last_topple < MaxCount

\* C14: two configurations are equal exactly when they have the same topology,
\* the same dimensions and the same value in every cell; the toppling counts
\* play no part.
C14_EqualityIgnoresCount ==
    (s1 # NoSandpile /\ s2 # NoSandpile) =>
        (eq(s1, s2) <=>
            /\ s1.grid_type = s2.grid_type
            /\ Len(s1.grid) = Len(s2.grid)
            /\ Len(s1.grid[1]) = Len(s2.grid[1])
            /\ \A c \in CellsOf(s1.grid) :
                    At(s1.grid, c[1], c[2]) = At(s2.grid, c[1], c[2]))

\* as in tests::add: a sum equal to a copy of the receiver that carries
\* another toppling count
C14_Witness ==
    /\ Succeeded("add")
    /\ eq(s1, s2)
    /\ s1.last_topple > 0
    /\ s2.last_topple = 0

\* C15: neutral of width 3 and height 2 is [[2,1,2],[2,1,2]] for Finite and
\* [[0,3,3],[2,1,1]] for Toroidal.
C15_NeutralThreeByTwo ==
    (Succeeded("neutral") /\ Len(s2.grid) = 2 /\ Len(s2.grid[1]) = 3) =>
        s2.grid = IF s2.grid_type = Finite
                  THEN << <<2, 1, 2>>, <<2, 1, 2>> >>
                  ELSE << <<0, 3, 3>>, <<2, 1, 1>> >>

\* neutral(Toroidal, (3, 2)) has returned
C15_Witness ==
    /\ Succeeded("neutral")
    /\ s2.grid_type = Toroidal
    /\ Len(s2.grid) = 2 /\ Len(s2.grid[1]) = 3
    /\ At(s2.grid, 0, 1) = 3

\* C16: from_grid(Toroidal, ...) returns the same cells and the same toppling
\* count whatever value the raw grid holds at (0,0).
C16_SinkInputIgnored ==
    (Constructed /\ ret.kind = "Ok" /\ sandpile.grid_type = Toroidal) =>
        \A v \in Cells :
            /\ eq(from_grid(Toroidal, Put(Raw, 0, 0, v)), s1)
            /\ from_grid(Toroidal, Put(Raw, 0, 0, v)).last_topple = s1.last_topple

\* a Toroidal raw grid with 4 chips on (0,0) has been constructed, and cells
\* next to (0,0) toppled
C16_Witness ==
    /\ Constructed /\ ret.kind = "Ok"
    /\ sandpile.grid_type = Toroidal
    /\ Len(Raw) = 2 /\ Len(Raw[1]) = 2
    /\ At(Raw, 0, 0) = 4
    /\ At(s1.grid, 0, 0) = 0
    /\ s1.last_topple > 0

\* the chips on the grid
Mass(g) == Sum([i \in 1..Len(g) |-> Sum(g[i])])

\* the loop of topple is running on the local grid
InLoop == pc \in {"while", "drain"}

\* every cell at 4 or more is in the current round's set or in the next one's
ActiveCovered ==
    \A c \in CellsOf(sandpile.grid) :
        At(sandpile.grid, c[1], c[2]) >= 4 => c \in excessive \cup ex2

\* C17: at every point of the round loop each cell at 4 or more is still in
\* the current round's set or already in the next round's set; the drain takes
\* each cell out of the current set once and nothing enters that set during
\* the round, so a processed cell raised to 4 or more again is in the next
\* round's set; the loop is left only with every cell below 4.
C17_ActiveSet ==
    [][/\ (pc' \in {"while", "drain"}) => ActiveCovered'
       /\ (pc' = "while") => ex2' = {}
       /\ (pc' = "ret") => Stable(sandpile'.grid)
       /\ (pc = "drain" /\ pc' = "drain") =>
            /\ excessive' \subseteq excessive
            /\ Cardinality(excessive') = Cardinality(excessive) - 1
            /\ \A c \in CellsOf(sandpile'.grid) \ excessive' :
                    At(sandpile'.grid, c[1], c[2]) >= 4 => c \in ex2'
      ]_vars

\* the first round on the all-6 Finite 2x2 grid (every cell starts in the
\* current set): a cell already processed is back at 4 or more
C17_Witness ==
    /\ pc = "drain"
    /\ sandpile.grid_type = Finite
    /\ Len(sandpile.grid) = 2 /\ Len(sandpile.grid[1]) = 2
    /\ Mass(sandpile.grid) + 2 * count = 24
    /\ count <= 3
    /\ \E c \in ex2 \ excessive : At(sandpile.grid, c[1], c[2]) >= 4

\* the cells of g next to c on the grid, worked out from the coordinates
Adjacent(g, c) ==
    {t \in CellsOf(g) :
        \/ t[2] = c[2] /\ (t[1] = c[1] + 1 \/ t[1] + 1 = c[1])
        \/ t[1] = c[1] /\ (t[2] = c[2] + 1 \/ t[2] + 1 = c[2])}

\* C18: on a Finite grid processing a cell with d = value / 4 lowers it by 4*d
\* and raises each cell next to it on the grid by d, leaving the others alone;
\* the total drops by d * (4 - number of those cells), never increases during
\* stabilization, and is unchanged when the cell has all four neighbours.
C18_ChipAccounting ==
    [][(InLoop /\ sandpile.grid_type = Finite) =>
        /\ Mass(sandpile'.grid) <= Mass(sandpile.grid)
        /\ DrainCell =>
            \A c \in excessive \ excessive' :
                LET g == sandpile.grid
                    h == sandpile'.grid
                    d == At(g, c[1], c[2]) \div 4
                    nb == Adjacent(g, c)
                IN  /\ At(h, c[1], c[2]) = At(g, c[1], c[2]) - 4 * d
                    /\ \A t \in nb : At(h, t[1], t[2]) = At(g, t[1], t[2]) + d
                    /\ \A t \in CellsOf(g) \ (nb \cup {c}) :
                            At(h, t[1], t[2]) = At(g, t[1], t[2])
                    /\ Mass(h) = Mass(g) - d * (4 - Cardinality(nb))
                    /\ Cardinality(nb) = 4 => Mass(h) = Mass(g)
      ]_vars

\* tests::add step by step: the centre of the 3x3 grid, which has all four
\* neighbours, has toppled, and the run ends on the left operand after 9
\* topplings
C18_Witness ==
    /\ pc = "ret"
    /\ sandpile.grid_type = Finite
    /\ sandpile.grid = TestAddLeft
    /\ sandpile.last_topple = 9

\* the configuration with 3 chips on every cell, of the topology and size of sp
Full(sp) ==
    from_grid(sp.grid_type,
              MakeGrid(Len(sp.grid), Len(sp.grid[1]), LAMBDA i, j : 3))

\* third operands tried with the two held: each of them and the full one
Thirds == {s1, s2, Full(s1)}

\* b.add(&c); a.add(&b)
AddSum(a, b, c) == add(a, add(b, c))

ReferenceOf(sp) == References[sp.grid_type, Len(sp.grid[1]), Len(sp.grid)].grid

\* C20: for every configuration x held and the stabilized all-6 grid M of its
\* topology and size, 6 - M[cell] and 2 * (6 - M[cell]) - x[cell] are
\* non-negative in every cell: neutral and inverse never subtract below zero.
C20_NoUnderflow ==
    \A sp \in {s1, s2} \ {NoSandpile} :
        \A c \in CellsOf(sp.grid) :
            /\ At(NeutralGrid(ReferenceOf(sp)), c[1], c[2]) >= 0
            /\ At(InverseGrid(ReferenceOf(sp), sp.grid), c[1], c[2]) >= 0

\* inverse has run on a configuration with a cell where both the
\* configuration and the reference grid hold 3, the largest stable value
C20_Witness ==
    /\ Succeeded("inverse")
    /\ \E c \in CellsOf(s1.grid) :
        /\ At(s1.grid, c[1], c[2]) = 3
        /\ At(ReferenceOf(s1), c[1], c[2]) = 3
        /\ At(InverseGrid(ReferenceOf(s1), s1.grid), c[1], c[2]) = 3

====
